---- MODULE Spec2Model ----
(***************************************************************************)
(* SiteObserver: the shared state store (state.py), the condition engine   *)
(* (conditions.py), the poll tick and its dispatch (scraper.py,            *)
(* notifier.py, auth.py) and the request handlers of app.py.               *)
(*                                                                         *)
(* Time is counted in whole minutes; a last_fired_at of Unset stands for   *)
(* the empty string the dataclass starts with.  The retention caps of the  *)
(* source (200 rolls, 100-roll evaluation window, 500 alerts) are scaled   *)
(* down to RollCap, EvalWindow and AlertCap so that eviction happens in a  *)
(* finite search; every formula is stated in terms of these names.         *)
(***************************************************************************)
EXTENDS Integers, Sequences, FiniteSets, TLC

(* ---------------------------- bounds ----------------------------------- *)

\* scaled from 200 (state.py:134-135)
RollCap == 2
\* scaled from 100 (scraper.py:82, state.py:138)
EvalWindow == 2
\* scaled from 500 (state.py:180-181)
AlertCap == 1
\* largest source index offered by the page
MaxIndex == 3
\* longest candidate batch
MaxBatch == 2
\* largest source index the polled page reports
PollMaxIndex == 2
\* largest n handed to get_rolls by a caller
MaxQuery == 3
\* the clock stops advancing here
MaxTime == 3
\* number of Condition objects ever created
MaxIds == 2
\* number of registry calls the threads issue when they run concurrently
MaxCalls == 4
\* consecutive failed sessions that are told apart
MaxFails == 2
\* longest window handed to the pure evaluate function
MaxWin == 3
\* largest param_n / param_threshold of a condition handed to evaluate
MaxN == 3
\* latest clock reading and timestamp handed to is_in_cooldown
MaxNow == 5
\* largest cooldown_minutes of a condition handed to is_in_cooldown
MaxCooldown == 3

(* ---------------------------- constants -------------------------------- *)

\* Condition.last_fired_at = "" (state.py:41)
Unset == 0

\* a last_fired_at string that datetime.fromisoformat rejects with ValueError
\* (conditions.py:27, 29)
Malformed == -1

Coins == {"ct", "t", "bonus"}

Users == {"u1", "u2"}

CondTypes == {"count_below", "absent_streak", "consecutive"}

\* state.py:15
COLORS == [c \in Coins |->
             CASE c = "ct" -> "Black" [] c = "t" -> "Orange" [] OTHER -> "Green"]

VARIABLES
  rolls,          \* SharedState.rolls: sequence of [index, coin]
  last_index,     \* SharedState.last_index
  conditions,     \* SharedState.conditions: sequence of Condition records
  alerts,         \* SharedState.alerts: sequence of Alert records
  scraper_status, \* SharedState.scraper_status
  disk,           \* contents of state.json: the persisted condition list
  now,            \* datetime.now(), in minutes
  nextId,         \* number of Condition ids handed out so far
  pc,             \* position of the scraper thread
  evalRolls,      \* _evaluate_conditions: rolls = state.get_rolls(100)
  evalQueue,      \* _evaluate_conditions: conditions still to visit
  cur,            \* the condition being fired
  pend,           \* (success, error) of the dispatch of cur
  chk,            \* history: what the visit that fired cur saw
  accepted,       \* history: every roll add_rolls ever accepted, in order
  ret,            \* history: the last store/registry call and its result
  evCond, evWindow, evNow, evOut,  \* inputs and result of the pure functions
  lock,           \* SharedState._data_lock: "free" or the thread holding it
  thr,            \* per thread: the registry call it is in and its position
  serial,         \* history: the registry calls applied one after the other
                  \* in the order they took the lock
  fails           \* history: sessions that failed in a row, counted to MaxFails

vars == <<rolls, last_index, conditions, alerts, scraper_status, disk, now,
          nextId, pc, evalRolls, evalQueue, cur, pend, chk, accepted, ret,
          evCond, evWindow, evNow, evOut, lock, thr, serial, fails>>

storeVars == <<rolls, last_index, accepted>>
tickVars  == <<pc, evalRolls, evalQueue, cur, pend, chk>>
pureVars  == <<evCond, evWindow, evNow, evOut>>
lockVars  == <<lock, thr, serial>>

(* ---------------------------- helpers ---------------------------------- *)

Max(a, b) == IF a >= b THEN a ELSE b
Min(a, b) == IF a <= b THEN a ELSE b

\* Python's s[-n:] for an integer n: -0 is 0, so n = 0 yields the whole list;
\* a negative n yields s[|n|:].
PySliceLast(s, n) ==
  IF n > 0 THEN SubSeq(s, Max(1, Len(s) - n + 1), Len(s))
           ELSE SubSeq(s, 1 - n, Len(s))

\* all sequences over S of length 0..n
SeqsUpTo(S, n) == UNION {[1..k -> S] : k \in 0..n}

RECURSIVE CountIf(_, _)
\* sum(1 for r in window if r.coin == color)
CountIf(window, color) ==
  IF window = <<>> THEN 0
  ELSE (IF Head(window).coin = color THEN 1 ELSE 0) + CountIf(Tail(window), color)

(* ---------------------------- Event store ------------------------------ *)

RECURSIVE AddLoopGe(_, _, _, _)
\* AddLoop with roll.index >= self.last_index
AddLoopGe(batch, rs, li, added) ==
  IF batch = <<>> THEN [rolls |-> rs, last_index |-> li, added |-> added]
  ELSE LET roll == Head(batch) IN
       IF roll.index >= li
         THEN AddLoopGe(Tail(batch), Append(rs, roll), roll.index, Append(added, roll))
         ELSE AddLoopGe(Tail(batch), rs, li, added)

RECURSIVE AddLoopStale(_, _, _, _)
\* AddLoop comparing with the high-water mark the call started with
AddLoopStale(batch, rs, li, added) ==
  IF batch = <<>>
    THEN [rolls |-> rs,
          last_index |-> IF added = <<>> THEN li ELSE added[Len(added)].index,
          added |-> added]
  ELSE LET roll == Head(batch) IN
       IF roll.index > li
         THEN AddLoopStale(Tail(batch), Append(rs, roll), li, Append(added, roll))
         ELSE AddLoopStale(Tail(batch), rs, li, added)

RECURSIVE AddLoopFirst(_, _, _, _)
\* AddLoop setting last_index for the first roll it accepts only
AddLoopFirst(batch, rs, li, added) ==
  IF batch = <<>> THEN [rolls |-> rs, last_index |-> li, added |-> added]
  ELSE LET roll == Head(batch) IN
       IF roll.index > li
         THEN AddLoopFirst(Tail(batch), Append(rs, roll),
                           IF added = <<>> THEN roll.index ELSE li, Append(added, roll))
         ELSE AddLoopFirst(Tail(batch), rs, li, added)

RECURSIVE AddLoop(_, _, _, _)
\* the for loop of add_rolls: rs, li, added are self.rolls, self.last_index
\* and the local list added
AddLoop(batch, rs, li, added) ==
  IF batch = <<>> THEN [rolls |-> rs, last_index |-> li, added |-> added]
  ELSE LET roll == Head(batch) IN
       IF roll.index > li
         THEN AddLoop(Tail(batch), Append(rs, roll), roll.index, Append(added, roll))
         ELSE AddLoop(Tail(batch), rs, li, added)

\* Truncate keeping self.rolls[:200]
TruncateFirst(rs) == IF Len(rs) > RollCap THEN SubSeq(rs, 1, RollCap) ELSE rs

\* if len(self.rolls) > 200: self.rolls = self.rolls[-200:]
Truncate(rs) == IF Len(rs) > RollCap THEN PySliceLast(rs, RollCap) ELSE rs

\* add_rolls as a function of the store: the new rolls, last_index and the
\* returned list
add_rolls(batch, rs, li) ==
  LET r == AddLoop(batch, rs, li, <<>>) IN
  [rolls |-> Truncate(r.rolls), last_index |-> r.last_index, added |-> r.added]

\* get_rolls: list(self.rolls[-n:])
get_rolls(rs, n) == PySliceLast(rs, n)

NoRet == [op |-> "none"]

Rolls == [index : 0..MaxIndex, coin : {"ct", "t"}]
Batches == SeqsUpTo(Rolls, MaxBatch)

PollRolls == [index : 0..PollMaxIndex, coin : {"ct", "t"}]
PollBatches == SeqsUpTo(PollRolls, MaxBatch)

\* _save writes the file (TRUE) or raises inside its try block (FALSE).  The
\* specifications below run with a storage that accepts every write:
\* state.json is written and never read while the process runs, so a failed
\* write changes nothing that the poll tick or a handler reads.
StorageUp == {TRUE}

(* ---------------------------- Condition engine ------------------------ *)

\* check_count_below with count <= threshold
check_count_below_le(condition, window) ==
  CountIf(PySliceLast(window, condition.param_n), condition.color)
    <= condition.param_threshold

\* rolls[-n:], count of the colour, count < threshold
check_count_below(condition, window) ==
  CountIf(PySliceLast(window, condition.param_n), condition.color)
    < condition.param_threshold

\* check_absent_streak without the length test
check_absent_streak_nolen(condition, window) ==
  LET w == PySliceLast(window, condition.param_n) IN
  CountIf(w, condition.color) = 0

\* fewer than n rolls: False; else no roll of the last n has the colour
check_absent_streak(condition, window) ==
  LET w == PySliceLast(window, condition.param_n) IN
  IF Len(w) < condition.param_n THEN FALSE
  ELSE CountIf(w, condition.color) = 0

\* check_consecutive without the length test
check_consecutive_nolen(condition, window) ==
  LET tail == PySliceLast(window, condition.param_n) IN
  CountIf(tail, condition.color) = Len(tail)

\* fewer than n rolls: False; else every roll of the last n has the colour
check_consecutive(condition, window) ==
  IF Len(window) < condition.param_n THEN FALSE
  ELSE LET tail == PySliceLast(window, condition.param_n) IN
       CountIf(tail, condition.color) = Len(tail)

evaluate(condition, window) ==
  IF window = <<>> \/ ~condition.enabled THEN FALSE
  ELSE IF condition.type = "count_below" THEN check_count_below(condition, window)
  ELSE IF condition.type = "absent_streak" THEN check_absent_streak(condition, window)
  ELSE IF condition.type = "consecutive" THEN check_consecutive(condition, window)
  ELSE FALSE

\* is_in_cooldown with the comparison turned round
is_in_cooldown_gt(condition, t) ==
  IF condition.last_fired_at = Unset THEN FALSE
  ELSE IF condition.last_fired_at = Malformed THEN FALSE
  ELSE t - condition.last_fired_at > condition.cooldown_minutes

\* is_in_cooldown with <= in place of <
is_in_cooldown_le(condition, t) ==
  IF condition.last_fired_at = Unset THEN FALSE
  ELSE IF condition.last_fired_at = Malformed THEN FALSE
  ELSE t - condition.last_fired_at <= condition.cooldown_minutes

\* if not last_fired_at: False; fromisoformat raises ValueError: False; else
\* datetime.now() - last < timedelta(minutes=cooldown_minutes), t = datetime.now()
is_in_cooldown(condition, t) ==
  IF condition.last_fired_at = Unset THEN FALSE
  ELSE IF condition.last_fired_at = Malformed THEN FALSE
  ELSE t - condition.last_fired_at < condition.cooldown_minutes

\* Condition.description, kept as its parts
description(condition) ==
  IF condition.type = "count_below"
    THEN [text |-> "count < threshold in last n rolls", color |-> COLORS[condition.color],
          n |-> condition.param_n, threshold |-> condition.param_threshold]
  ELSE IF condition.type = "absent_streak"
    THEN [text |-> "absent for n consecutive rolls", color |-> COLORS[condition.color],
          n |-> condition.param_n, threshold |-> 0]
  ELSE IF condition.type = "consecutive"
    THEN [text |-> "appears n times in a row", color |-> COLORS[condition.color],
          n |-> condition.param_n, threshold |-> 0]
  ELSE [text |-> "Unknown condition type", color |-> COLORS[condition.color],
        n |-> 0, threshold |-> 0]

(* ---------------------------- Registry --------------------------------- *)

\* asdict leaving last_fired_at out
asdict_no_fired(c) ==
  [id |-> c.id, color |-> c.color, type |-> c.type, param_n |-> c.param_n,
   param_threshold |-> c.param_threshold, cooldown_minutes |-> c.cooldown_minutes,
   enabled |-> c.enabled, user_email |-> c.user_email]

\* dataclasses.asdict(c): one key per field of Condition (description is a
\* property and is not among them)
asdict(c) ==
  [id |-> c.id, color |-> c.color, type |-> c.type, param_n |-> c.param_n,
   param_threshold |-> c.param_threshold, cooldown_minutes |-> c.cooldown_minutes,
   last_fired_at |-> c.last_fired_at, enabled |-> c.enabled,
   user_email |-> c.user_email]

\* _save: the file holds the dict of every condition, or keeps its old
\* contents when the write raises
save(conds, file, ok) ==
  IF ok THEN [i \in 1..Len(conds) |-> asdict(conds[i])] ELSE file

\* d.get(key, default)
Field(d, key, default) == IF key \in DOMAIN d THEN d[key] ELSE default

\* Condition(**d): a key the dict lacks takes the default of the dataclass
\* (an empty id is replaced by a fresh uuid, here 0, the id of no condition
\* the forms created)
ConditionFromDict(d) ==
  [id |-> Field(d, "id", 0), color |-> Field(d, "color", ""),
   type |-> Field(d, "type", ""), param_n |-> Field(d, "param_n", 100),
   param_threshold |-> Field(d, "param_threshold", 0),
   cooldown_minutes |-> Field(d, "cooldown_minutes", 10),
   last_fired_at |-> Field(d, "last_fired_at", Unset),
   enabled |-> Field(d, "enabled", TRUE), user_email |-> Field(d, "user_email", "")]

\* the keyword arguments Condition(...) accepts
ConditionFields ==
  {"id", "color", "type", "param_n", "param_threshold", "cooldown_minutes",
   "last_fired_at", "enabled", "user_email"}

\* Condition(**d) raises TypeError: d has a key that is no field
Unloadable(d) == ~(DOMAIN d \subseteq ConditionFields)

\* an entry of state.json that is no condition
Garbage == [garbage |-> TRUE]

\* load taking over the entries it can build
load_keep_valid(file) ==
  LET Loadable(d) == ~Unloadable(d)
      good == SelectSeq(file, Loadable)
  IN [i \in 1..Len(good) |-> ConditionFromDict(good[i])]

\* _load: self.conditions = [Condition(**c) for c in data.get("conditions", [])]
\* inside try/except Exception; when building any entry raises, the
\* assignment is not reached and self.conditions stays []
load(file) ==
  IF \E i \in 1..Len(file) : Unloadable(file[i]) THEN <<>>
  ELSE [i \in 1..Len(file) |-> ConditionFromDict(file[i])]

RECURSIVE Filter(_, _, _)
\* [c for c in conds if not (c.id == id and c.user_email == user)]
Filter(conds, id, user) ==
  IF conds = <<>> THEN <<>>
  ELSE LET c == Head(conds) IN
       IF ~(c.id = id /\ c.user_email = user)
         THEN <<c>> \o Filter(Tail(conds), id, user)
         ELSE Filter(Tail(conds), id, user)

RECURSIVE FilterById(_, _, _)
\* Filter without the owner test
FilterById(conds, id, user) ==
  IF conds = <<>> THEN <<>>
  ELSE IF Head(conds).id # id
         THEN <<Head(conds)>> \o FilterById(Tail(conds), id, user)
         ELSE FilterById(Tail(conds), id, user)

\* remove_condition matching on the id alone
remove_condition_by_id(conds, id, user) == FilterById(conds, id, user)

remove_condition(conds, id, user) == Filter(conds, id, user)

RECURSIVE FirstIndex(_, _, _)
\* index of the first condition with this id, 0 when there is none
FirstIndex(conds, id, i) ==
  IF i > Len(conds) THEN 0
  ELSE IF conds[i].id = id THEN i ELSE FirstIndex(conds, id, i + 1)

\* the loop of update_condition_fired: the first match gets last_fired_at = t
update_condition_fired(conds, id, t) ==
  LET i == FirstIndex(conds, id, 1) IN
  IF i = 0 THEN conds
  ELSE [conds EXCEPT ![i] = [@ EXCEPT !.last_fired_at = t]]

\* add_alert keeping self.alerts[:500]
add_alert_keep_first(as, a) ==
  LET l == Append(as, a) IN
  IF Len(l) > AlertCap THEN SubSeq(l, 1, AlertCap) ELSE l

\* add_alert: append, keep the last 500
add_alert(as, a) ==
  LET l == Append(as, a) IN
  IF Len(l) > AlertCap THEN PySliceLast(l, AlertCap) ELSE l

(* ---------------------------- Dispatch --------------------------------- *)

\* what the two requests.post calls of send_alert can do: both succeed; the
\* first or the second raises requests.RequestException; reading the first
\* response (resp.json()["id"]) raises something else (KeyError, TypeError)
TransportOutcomes == {"ok", "open_failed", "send_failed", "read_raised"}

\* send_alert for a configured bot and a non-empty discord id: the returned
\* (success, error_message), or raised when the exception is not caught
send_alert(outcome) ==
  IF outcome = "ok" THEN [raised |-> FALSE, success |-> TRUE, error |-> ""]
  ELSE IF outcome = "open_failed"
    THEN [raised |-> FALSE, success |-> FALSE, error |-> "Failed to open DM channel"]
  ELSE IF outcome = "send_failed"
    THEN [raised |-> FALSE, success |-> FALSE, error |-> "Failed to send DM"]
  ELSE [raised |-> TRUE, success |-> FALSE, error |-> "KeyError"]

\* dispatch starting from success, error = False, ""
dispatch_empty_error(discord_id, configured, outcome) ==
  IF discord_id # "" /\ configured
    THEN send_alert(outcome)
    ELSE [raised |-> FALSE, success |-> FALSE, error |-> ""]

\* lines 94-99 of _evaluate_conditions: discord_id is what get_discord_id
\* returned ("" for None), configured is notifier.is_configured()
dispatch(discord_id, configured, outcome) ==
  IF discord_id # "" /\ configured
    THEN send_alert(outcome)
    ELSE [raised |-> FALSE, success |-> FALSE, error |-> "No Discord ID configured"]

(* ---------------------------- Poll tick -------------------------------- *)

RECURSIVE NewRolls(_, _)
\* [Roll(...) for r in raw_rolls if r["index"] > state.last_index]
NewRolls(raw, li) ==
  IF raw = <<>> THEN <<>>
  ELSE IF Head(raw).index > li THEN <<Head(raw)>> \o NewRolls(Tail(raw), li)
       ELSE NewRolls(Tail(raw), li)

\* poll_once going on to _evaluate_conditions when no roll is new
poll_once_always_evaluates(raw, server_index, rs, li) ==
  LET same == [rolls |-> rs, last_index |-> li, added |-> <<>>, evaluates |-> TRUE]
      new  == NewRolls(raw, li)
  IN
  IF server_index <= li /\ li > 0 THEN same
  ELSE IF new = <<>>
    THEN IF li = 0 /\ raw # <<>>
           THEN add_rolls(raw, rs, li) @@ [evaluates |-> TRUE]
           ELSE same
  ELSE add_rolls(new, rs, li) @@ [evaluates |-> TRUE]

\* poll_once without the return on a server index that is not new
poll_once_no_index_gate(raw, server_index, rs, li) ==
  LET same == [rolls |-> rs, last_index |-> li, added |-> <<>>, evaluates |-> FALSE]
      new  == NewRolls(raw, li)
  IN
  IF new = <<>>
    THEN IF li = 0 /\ raw # <<>>
           THEN add_rolls(raw, rs, li) @@ [evaluates |-> FALSE]
           ELSE same
  ELSE add_rolls(new, rs, li) @@ [evaluates |-> TRUE]

\* _poll_once from the page's answer to the call of _evaluate_conditions:
\* the store afterwards, what add_rolls returned, and whether
\* _evaluate_conditions is reached
poll_once(raw, server_index, rs, li) ==
  LET same == [rolls |-> rs, last_index |-> li, added |-> <<>>, evaluates |-> FALSE]
      new  == NewRolls(raw, li)
  IN
  IF server_index <= li /\ li > 0 THEN same
  ELSE IF new = <<>>
    THEN IF li = 0 /\ raw # <<>>
           THEN add_rolls(raw, rs, li) @@ [evaluates |-> FALSE]
           ELSE same
  ELSE add_rolls(new, rs, li) @@ [evaluates |-> TRUE]

NoCond == [id |-> 0, color |-> "ct", type |-> "none", param_n |-> 0,
           param_threshold |-> 0, cooldown_minutes |-> 0, last_fired_at |-> Unset,
           enabled |-> FALSE, user_email |-> ""]

NoPend == [success |-> FALSE, error |-> ""]

NoChk == [id |-> 0, enabled |-> FALSE, last |-> Unset, at |-> 0, cd |-> 0,
          eval |-> FALSE, target |-> FALSE, transport |-> "none"]

\* the threads that call the registry: two Streamlit script runs and the
\* scraper thread
Handlers == {"h1", "h2"}

Threads == Handlers \cup {"sc"}

\* a thread outside any registry call
NoCall == [pc |-> "out", op |-> "none", arg |-> NoCond, tmp |-> <<>>]

NoSerial == [conds |-> <<>>, added |-> {}, removed |-> {}, fired |-> {},
             issued |-> 0, contended |-> FALSE]

\* the condition forms of app.py, with their number inputs scaled to the window
Templates ==
  { [color |-> "ct", type |-> "count_below", param_n |-> 2, param_threshold |-> 1,
     cooldown_minutes |-> 2],
    [color |-> "t", type |-> "consecutive", param_n |-> 2, param_threshold |-> 0,
     cooldown_minutes |-> 1] }

\* Condition(color=..., type=..., ..., user_email=user_email): a fresh id,
\* never fired, enabled
NewCondition(id, t, user) ==
  [id |-> id, color |-> t.color, type |-> t.type, param_n |-> t.param_n,
   param_threshold |-> t.param_threshold, cooldown_minutes |-> t.cooldown_minutes,
   last_fired_at |-> Unset, enabled |-> TRUE, user_email |-> user]

Init ==
  /\ rolls = <<>>
  /\ last_index = 0
  /\ conditions = <<>>
  /\ alerts = <<>>
  /\ scraper_status = [status |-> "stopped", error |-> ""]
  /\ disk = <<>>
  /\ now = 1
  /\ nextId = 0
  /\ pc = "init"
  /\ evalRolls = <<>>
  /\ evalQueue = <<>>
  /\ cur = NoCond
  /\ pend = NoPend
  /\ chk = NoChk
  /\ accepted = <<>>
  /\ ret = NoRet
  /\ evCond = NoCond
  /\ evWindow = <<>>
  /\ evNow = 0
  /\ evOut = [done |-> FALSE, value |-> FALSE]
  /\ lock = "free"
  /\ thr = [t \in Threads |-> NoCall]
  /\ serial = NoSerial
  /\ fails = 0

(* scraper thread *)

\* StartSession announcing "running" before the browser is there
StartSessionRunning ==
  /\ pc \in {"init", "backoff"}
  /\ scraper_status' = [status |-> "running", error |-> ""]
  /\ pc' = "connecting"
  /\ UNCHANGED <<rolls, last_index, conditions, alerts, disk, now, nextId,
                 evalRolls, evalQueue, cur, pend, chk, accepted, ret, pureVars, lockVars,
                 fails>>

\* _run_async: set_scraper_status("starting"), first or after the 30 s backoff
StartSession ==
  /\ pc \in {"init", "backoff"}
  /\ scraper_status' = [status |-> "starting", error |-> ""]
  /\ pc' = "connecting"
  /\ UNCHANGED <<rolls, last_index, conditions, alerts, disk, now, nextId,
                 evalRolls, evalQueue, cur, pend, chk, accepted, ret, pureVars, lockVars,
                 fails>>

\* the browser starts and the store is ready: _run_scraper_loop sets "running"
ConnectOk ==
  /\ pc = "connecting"
  /\ scraper_status' = [status |-> "running", error |-> ""]
  /\ pc' = "idle"
  /\ fails' = 0
  /\ UNCHANGED <<rolls, last_index, conditions, alerts, disk, now, nextId,
                 evalRolls, evalQueue, cur, pend, chk, accepted, ret, pureVars,
                 lockVars>>

\* ConnectFail with a retry budget: after the second failure in a row the
\* while loop of _run_async is left
ConnectFailGiveUp ==
  /\ pc = "connecting"
  /\ scraper_status' = [status |-> "error", error |-> "exc"]
  /\ pc' = IF fails >= 1 THEN "exited" ELSE "backoff"
  /\ fails' = Min(fails + 1, MaxFails)
  /\ UNCHANGED <<rolls, last_index, conditions, alerts, disk, now, nextId,
                 evalRolls, evalQueue, cur, pend, chk, accepted, ret, pureVars,
                 lockVars>>

\* launching, navigating or waiting raises: except branch of _run_async
ConnectFail ==
  /\ pc = "connecting"
  /\ scraper_status' = [status |-> "error", error |-> "exc"]
  /\ pc' = "backoff"
  /\ fails' = Min(fails + 1, MaxFails)
  /\ UNCHANGED <<rolls, last_index, conditions, alerts, disk, now, nextId,
                 evalRolls, evalQueue, cur, pend, chk, accepted, ret, pureVars,
                 lockVars>>

\* _poll_once with data = None
PollNone ==
  /\ pc = "idle"
  /\ pc' = "idle"
  /\ UNCHANGED <<rolls, last_index, conditions, alerts, scraper_status, disk, now,
                 nextId, evalRolls, evalQueue, cur, pend, chk, accepted, ret, pureVars, lockVars,
                 fails>>

\* page.evaluate raises: caught by the loop
PollRaises ==
  /\ pc = "idle"
  /\ pc' = "poll_error"
  /\ UNCHANGED <<rolls, last_index, conditions, alerts, scraper_status, disk, now,
                 nextId, evalRolls, evalQueue, cur, pend, chk, accepted, ret, pureVars, lockVars,
                 fails>>

\* _poll_once with data = {rolls: raw, index: server_index}, up to and
\* including the two reads that open _evaluate_conditions
PollOnceBody(raw, server_index) ==
  /\ pc = "idle"
  /\ LET r == poll_once(raw, server_index, rolls, last_index) IN
     /\ rolls' = r.rolls
     /\ last_index' = r.last_index
     /\ accepted' = accepted \o r.added
     /\ IF r.evaluates
          THEN /\ pc' = "eval"
               /\ evalRolls' = get_rolls(r.rolls, EvalWindow)
               /\ evalQueue' = conditions
          ELSE /\ pc' = "idle"
               /\ UNCHANGED <<evalRolls, evalQueue>>
  /\ UNCHANGED <<conditions, alerts, scraper_status, disk, now, nextId, cur, pend,
                 chk, pureVars, lockVars, fails>>

PollOnce(raw, server_index) ==
  /\ PollOnceBody(raw, server_index)
  /\ UNCHANGED ret

\* gates without the cooldown test
gates_no_cooldown(condition, window, t) ==
  /\ condition.enabled
  /\ evaluate(condition, window)

\* the three "continue" gates of the for loop of _evaluate_conditions
gates(condition, window, t) ==
  /\ condition.enabled
  /\ ~is_in_cooldown(condition, t)
  /\ evaluate(condition, window)

\* one pass of the for loop of _evaluate_conditions up to the dispatch: the
\* three gates, then get_discord_id, is_configured and send_alert
CheckCondition(discord_id, configured, outcome) ==
  /\ pc = "eval"
  /\ evalQueue # <<>>
  /\ LET condition == Head(evalQueue)
         d == dispatch(discord_id, configured, outcome)
         seen == [id |-> condition.id, enabled |-> condition.enabled,
                  last |-> condition.last_fired_at, at |-> now,
                  cd |-> condition.cooldown_minutes,
                  eval |-> evaluate(condition, evalRolls),
                  target |-> FALSE, transport |-> "none"]
     IN
     IF ~gates(condition, evalRolls, now)
       THEN /\ evalQueue' = Tail(evalQueue)
            /\ cur' = NoCond
            /\ pend' = NoPend
            /\ chk' = NoChk
            /\ UNCHANGED <<pc, evalRolls>>
     ELSE /\ chk' = [seen EXCEPT !.target = (discord_id # ""),
                                 !.transport = IF discord_id # "" /\ configured
                                                 THEN outcome ELSE "none"]
          /\ IF d.raised
               THEN /\ pc' = "poll_error"
                    /\ evalQueue' = <<>>
                    /\ evalRolls' = <<>>
                    /\ cur' = NoCond
                    /\ pend' = NoPend
               ELSE /\ pc' = "mark"
                    /\ cur' = condition
                    /\ pend' = [success |-> d.success, error |-> d.error]
                    /\ evalQueue' = Tail(evalQueue)
                    /\ UNCHANGED evalRolls
  /\ UNCHANGED <<rolls, last_index, conditions, alerts, scraper_status, disk, now,
                 nextId, accepted, ret, pureVars, lockVars, fails>>

\* state.update_condition_fired(condition.id), with its _save
MarkFired(ok) ==
  /\ pc = "mark"
  /\ conditions' = update_condition_fired(conditions, cur.id, now)
  /\ disk' = save(conditions', disk, ok)
  /\ pc' = "alert"
  /\ UNCHANGED <<rolls, last_index, alerts, scraper_status, now, nextId,
                 evalRolls, evalQueue, cur, pend, chk, accepted, ret, pureVars, lockVars,
                 fails>>

\* state.add_alert(Alert(...)); the loop goes on to the next condition
AddAlert ==
  /\ pc = "alert"
  /\ alerts' = add_alert(alerts,
                 [condition_id |-> cur.id, condition_desc |-> description(cur),
                  user_email |-> cur.user_email, fired_at |-> now,
                  email_sent |-> pend.success, error |-> pend.error])
  /\ pc' = "eval"
  /\ UNCHANGED <<rolls, last_index, conditions, scraper_status, disk, now, nextId,
                 evalRolls, evalQueue, cur, pend, chk, accepted, ret, pureVars, lockVars,
                 fails>>

\* the for loop is over: _poll_once returns, the loop sleeps
FinishEval ==
  /\ pc = "eval"
  /\ evalQueue = <<>>
  /\ pc' = "idle"
  /\ evalRolls' = <<>>
  /\ cur' = NoCond
  /\ pend' = NoPend
  /\ chk' = NoChk
  /\ UNCHANGED <<rolls, last_index, conditions, alerts, scraper_status, disk, now,
                 nextId, evalQueue, accepted, ret, pureVars, lockVars, fails>>

\* _run_scraper_loop without its try/except: the exception reaches _run_async
HandlePollErrorCrash ==
  /\ pc = "poll_error"
  /\ pc' = "backoff"
  /\ scraper_status' = [status |-> "error", error |-> "exc"]
  /\ chk' = NoChk
  /\ UNCHANGED <<rolls, last_index, conditions, alerts, disk, now,
                 nextId, evalRolls, evalQueue, cur, pend, accepted, ret, pureVars, lockVars, fails>>

\* except Exception in _run_scraper_loop: log, then sleep
HandlePollError ==
  /\ pc = "poll_error"
  /\ pc' = "idle"
  /\ chk' = NoChk
  /\ UNCHANGED <<rolls, last_index, conditions, alerts, scraper_status, disk, now,
                 nextId, evalRolls, evalQueue, cur, pend, accepted, ret, pureVars, lockVars, fails>>

(* request handlers *)

\* add_condition building the list anew from never-fired copies
add_condition_reset(conds, condition) ==
  Append([i \in 1..Len(conds) |-> [conds[i] EXCEPT !.last_fired_at = Unset]],
         condition)

\* self.conditions.append(condition); self._save()
add_condition(conds, condition) == Append(conds, condition)

\* the add_condition form: Condition(...), state.add_condition
AddCondition(t, user, ok) ==
  /\ nextId < MaxIds
  /\ nextId' = nextId + 1
  /\ conditions' = add_condition(conditions, NewCondition(nextId + 1, t, user))
  /\ disk' = save(conditions', disk, ok)
  /\ UNCHANGED <<rolls, last_index, alerts, scraper_status, now, tickVars,
                 accepted, ret, pureVars, lockVars, fails>>

\* the Delete button: state.remove_condition(id, user), with its _save
RemoveCondition(id, user, ok) ==
  /\ conditions' = remove_condition(conditions, id, user)
  /\ disk' = save(conditions', disk, ok)
  /\ UNCHANGED <<rolls, last_index, alerts, scraper_status, now, nextId, tickVars,
                 accepted, ret, pureVars, lockVars, fails>>

\* time passes
Advance ==
  /\ now < MaxTime
  /\ now' = now + 1
  /\ UNCHANGED <<rolls, last_index, conditions, alerts, scraper_status, disk,
                 nextId, tickVars, accepted, ret, pureVars, lockVars, fails>>

Next ==
  \/ StartSession
  \/ ConnectOk
  \/ ConnectFail
  \/ PollNone
  \/ PollRaises
  \/ \E raw \in PollBatches, si \in 0..PollMaxIndex : PollOnce(raw, si)
  \/ \E d \in {"", "d1"}, cfg \in BOOLEAN, o \in TransportOutcomes :
       CheckCondition(d, cfg, o)
  \/ \E ok \in StorageUp : MarkFired(ok)
  \/ AddAlert
  \/ FinishEval
  \/ HandlePollError
  \/ \E t \in Templates, u \in Users, ok \in StorageUp : AddCondition(t, u, ok)
  \/ \E id \in 1..MaxIds, u \in Users, ok \in StorageUp : RemoveCondition(id, u, ok)
  \/ Advance

Spec == Init /\ [][Next]_vars

\* the steps of the scraper thread that change something.  The thread is a
\* daemon thread that is never joined or cancelled; every await in it ends
\* (by a result, an exception or a timeout) and every sleep is finite, so a
\* step of it that stays possible is taken.
ScraperNext ==
  \/ StartSession
  \/ ConnectOk
  \/ ConnectFail
  \/ PollRaises
  \/ \E raw \in PollBatches, si \in 0..PollMaxIndex : PollOnce(raw, si)
  \/ \E d \in {"", "d1"}, cfg \in BOOLEAN, o \in TransportOutcomes :
       CheckCondition(d, cfg, o)
  \/ \E ok \in StorageUp : MarkFired(ok)
  \/ AddAlert
  \/ FinishEval
  \/ HandlePollError

SpecFair == Spec /\ WF_vars(ScraperNext)

(* ---------------------------- Registry calls --------------------------- *)

\* The registry on its own: the three condition mutators called in any order
\* at any time.  ret records the last call.

RegAdd(t, user, ok) ==
  /\ nextId < MaxIds
  /\ nextId' = nextId + 1
  /\ conditions' = add_condition(conditions, NewCondition(nextId + 1, t, user))
  /\ disk' = save(conditions', disk, ok)
  /\ ret' = [op |-> "add_condition", id |-> nextId + 1, user |-> user,
             pre |-> conditions, saved |-> ok]
  /\ UNCHANGED <<rolls, last_index, alerts, scraper_status, now, tickVars,
                 accepted, pureVars, lockVars, fails>>

RegRemove(id, user, ok) ==
  /\ conditions' = remove_condition(conditions, id, user)
  /\ disk' = save(conditions', disk, ok)
  /\ ret' = [op |-> "remove_condition", id |-> id, user |-> user,
             pre |-> conditions, saved |-> ok]
  /\ UNCHANGED <<rolls, last_index, alerts, scraper_status, now, nextId, tickVars,
                 accepted, pureVars, lockVars, fails>>

RegFired(id, ok) ==
  /\ conditions' = update_condition_fired(conditions, id, now)
  /\ disk' = save(conditions', disk, ok)
  /\ ret' = [op |-> "update_condition_fired", id |-> id, user |-> "",
             pre |-> conditions, saved |-> ok]
  /\ UNCHANGED <<rolls, last_index, alerts, scraper_status, now, nextId, tickVars,
                 accepted, pureVars, lockVars, fails>>

RegAdvance ==
  /\ now < MaxTime
  /\ now' = now + 1
  /\ UNCHANGED <<rolls, last_index, conditions, alerts, scraper_status, disk,
                 nextId, tickVars, accepted, ret, pureVars, lockVars, fails>>

NextRegistry ==
  \/ \E t \in Templates, u \in Users, ok \in StorageUp : RegAdd(t, u, ok)
  \/ \E id \in 1..MaxIds, u \in Users, ok \in StorageUp : RegRemove(id, u, ok)
  \/ \E id \in 1..MaxIds, ok \in StorageUp : RegFired(id, ok)
  \/ RegAdvance

SpecRegistry == Init /\ [][NextRegistry]_vars

(* ---------------------------- Registry under threads ------------------- *)

\* The three condition mutators called by threads that run at the same time.
\* A call is split where another thread can run: taking _data_lock, the
\* statements of the with block, _save, leaving the with block.
\* remove_condition builds its list before it assigns it, so its block is two
\* steps; list.append and the attribute assignment of update_condition_fired
\* are single steps.  serial applies each call in one piece at the moment it
\* takes the lock.

\* the call of a thread applied to a condition list in one piece
ApplyCall(call, conds) ==
  IF call.op = "add_condition" THEN add_condition(conds, call.arg)
  ELSE IF call.op = "remove_condition"
    THEN remove_condition(conds, call.arg.id, call.arg.user_email)
  ELSE update_condition_fired(conds, call.arg.id, now)

\* the owner and id of a call's argument
Key(call) == <<call.arg.id, call.arg.user_email>>

\* state.add_condition(Condition(...)) is called in a script run
CallAdd(t, tpl, user) ==
  /\ thr[t].pc = "out"
  /\ serial.issued < MaxCalls
  /\ nextId < MaxIds
  /\ nextId' = nextId + 1
  /\ thr' = [thr EXCEPT ![t] = [pc |-> "acquire", op |-> "add_condition",
                                 arg |-> NewCondition(nextId + 1, tpl, user),
                                 tmp |-> <<>>]]
  /\ serial' = [serial EXCEPT !.issued = @ + 1,
                              !.contended = @ \/ lock # "free"]
  /\ UNCHANGED <<rolls, last_index, conditions, alerts, scraper_status, disk, now,
                 tickVars, accepted, ret, pureVars, lock, fails>>

\* state.remove_condition(c.id, user_email) is called in a script run
CallRemove(t, id, user) ==
  /\ thr[t].pc = "out"
  /\ serial.issued < MaxCalls
  /\ thr' = [thr EXCEPT ![t] = [pc |-> "acquire", op |-> "remove_condition",
                                 arg |-> [NoCond EXCEPT !.id = id, !.user_email = user],
                                 tmp |-> <<>>]]
  /\ serial' = [serial EXCEPT !.issued = @ + 1,
                              !.contended = @ \/ lock # "free"]
  /\ UNCHANGED <<rolls, last_index, conditions, alerts, scraper_status, disk, now,
                 nextId, tickVars, accepted, ret, pureVars, lock, fails>>

\* state.update_condition_fired(condition.id) is called by the scraper thread
\* for a condition that get_all_conditions handed to it
CallFired(id) ==
  /\ thr["sc"].pc = "out"
  /\ serial.issued < MaxCalls
  /\ lock = "free"
  /\ FirstIndex(conditions, id, 1) # 0
  /\ thr' = [thr EXCEPT !["sc"] = [pc |-> "acquire", op |-> "update_condition_fired",
                                   arg |-> [NoCond EXCEPT !.id = id],
                                   tmp |-> <<>>]]
  /\ serial' = [serial EXCEPT !.issued = @ + 1]
  /\ UNCHANGED <<rolls, last_index, conditions, alerts, scraper_status, disk, now,
                 nextId, tickVars, accepted, ret, pureVars, lock, fails>>

\* what serial becomes when the call of thread t takes effect
Serialized(t) ==
  [serial EXCEPT
     !.conds = ApplyCall(thr[t], @),
     !.added = IF thr[t].op = "add_condition" THEN @ \cup {Key(thr[t])} ELSE @,
     !.removed = IF thr[t].op = "remove_condition" THEN @ \cup {Key(thr[t])} ELSE @,
     !.fired = IF thr[t].op = "update_condition_fired" THEN @ \cup {thr[t].arg.id} ELSE @,
     !.contended = @ \/ \E u \in Threads \ {t} : thr[u].pc = "acquire"]

\* Acquire entering the with block whether or not the lock is held
AcquireRace(t) ==
  /\ thr[t].pc = "acquire"
  /\ lock' = t
  /\ thr' = [thr EXCEPT ![t].pc = "locked"]
  /\ serial' = Serialized(t)
  /\ UNCHANGED <<rolls, last_index, conditions, alerts, scraper_status, disk, now,
                 nextId, tickVars, accepted, ret, pureVars, fails>>

\* with self._data_lock: the thread waits until the lock is free
Acquire(t) ==
  /\ thr[t].pc = "acquire"
  /\ lock = "free"
  /\ lock' = t
  /\ thr' = [thr EXCEPT ![t].pc = "locked"]
  /\ serial' = Serialized(t)
  /\ UNCHANGED <<rolls, last_index, conditions, alerts, scraper_status, disk, now,
                 nextId, tickVars, accepted, ret, pureVars, fails>>

\* the first statement of the with block: append, the marking loop, or the
\* list comprehension of remove_condition
Body(t) ==
  /\ thr[t].pc = "locked"
  /\ IF thr[t].op = "remove_condition"
       THEN /\ thr' = [thr EXCEPT
                         ![t].tmp = remove_condition(conditions, thr[t].arg.id,
                                                     thr[t].arg.user_email),
                         ![t].pc = "assign"]
            /\ UNCHANGED conditions
       ELSE /\ conditions' = ApplyCall(thr[t], conditions)
            /\ thr' = [thr EXCEPT ![t].pc = "save"]
  /\ UNCHANGED <<rolls, last_index, alerts, scraper_status, disk, now, nextId,
                 tickVars, accepted, ret, pureVars, lock, serial, fails>>

\* self.conditions = [...] of remove_condition
Assign(t) ==
  /\ thr[t].pc = "assign"
  /\ conditions' = thr[t].tmp
  /\ thr' = [thr EXCEPT ![t].pc = "save", ![t].tmp = <<>>]
  /\ UNCHANGED <<rolls, last_index, alerts, scraper_status, disk, now, nextId,
                 tickVars, accepted, ret, pureVars, lock, serial, fails>>

\* self._save()
Save(t, ok) ==
  /\ thr[t].pc = "save"
  /\ disk' = save(conditions, disk, ok)
  /\ thr' = [thr EXCEPT ![t].pc = "release"]
  /\ UNCHANGED <<rolls, last_index, conditions, alerts, scraper_status, now,
                 nextId, tickVars, accepted, ret, pureVars, lock, serial, fails>>

\* the with block is left: the lock is free again and the call returns
Release(t) ==
  /\ thr[t].pc = "release"
  /\ lock' = "free"
  /\ thr' = [thr EXCEPT ![t] = NoCall]
  /\ UNCHANGED <<rolls, last_index, conditions, alerts, scraper_status, disk, now,
                 nextId, tickVars, accepted, ret, pureVars, serial, fails>>

NextLocked ==
  \/ \E t \in Handlers, tpl \in Templates, u \in Users : CallAdd(t, tpl, u)
  \/ \E t \in Handlers, id \in 1..MaxIds, u \in Users : CallRemove(t, id, u)
  \/ \E id \in 1..MaxIds : CallFired(id)
  \/ \E t \in Threads : Acquire(t)
  \/ \E t \in Threads : Body(t)
  \/ \E t \in Threads : Assign(t)
  \/ \E t \in Threads, ok \in StorageUp : Save(t, ok)
  \/ \E t \in Threads : Release(t)

SpecLocked == Init /\ [][NextLocked]_vars

(* ---------------------------- Store calls ------------------------------ *)

\* The event store on its own: add_rolls and get_rolls called with any batch
\* and any n.  ret records the last call: of an add_rolls batch it keeps
\* whether every candidate was at or below the high-water mark (stale),
\* whether the batch was out of order or repeated an index (disordered) and
\* whether it held a roll that was in the store with the high-water index
\* (again).

AllStale(batch, li) == \A i \in 1..Len(batch) : batch[i].index <= li

Disordered(batch) ==
  \E i, j \in 1..Len(batch) : i < j /\ batch[j].index <= batch[i].index

Resubmits(batch, rs) ==
  \E i \in 1..Len(batch), k \in 1..Len(rs) :
    batch[i] = rs[k] /\ k = Len(rs)

AddRolls(batch) ==
  /\ LET r == add_rolls(batch, rolls, last_index) IN
     /\ rolls' = r.rolls
     /\ last_index' = r.last_index
     /\ accepted' = accepted \o r.added
     /\ ret' = [op |-> "add_rolls", stale |-> AllStale(batch, last_index),
                disordered |-> Disordered(batch), again |-> Resubmits(batch, rolls),
                out |-> r.added, pre |-> rolls, preLast |-> last_index]
  /\ UNCHANGED <<conditions, alerts, scraper_status, disk, now, nextId, tickVars,
                 pureVars, lockVars, fails>>

GetRolls(n) ==
  /\ ret' = [op |-> "get_rolls", n |-> n, out |-> get_rolls(rolls, n),
             pre |-> rolls, preLast |-> last_index]
  /\ UNCHANGED <<rolls, last_index, accepted, conditions, alerts, scraper_status,
                 disk, now, nextId, tickVars, pureVars, lockVars, fails>>

NextStore ==
  \/ \E batch \in Batches : AddRolls(batch)
  \/ \E n \in 0..MaxQuery : GetRolls(n)

SpecStore == Init /\ [][NextStore]_vars

(* ---------------------------- Persistence ------------------------------ *)

\* The registry calls with a storage that may refuse a write, next to the
\* calls that change the other parts of the shared state, and a restart of
\* the process, which builds a new SharedState from state.json.

\* the add_condition form with the count_below type
PersistTemplates == {t \in Templates : t.type = "count_below"}

\* the roll the page reports next
NextRoll == [index |-> last_index + 1, coin |-> "ct"]

\* state.add_rolls([roll]) with the first roll a process sees
AddNextRoll ==
  /\ rolls = <<>>
  /\ AddRolls(<<NextRoll>>)

\* state.add_alert(alert)
AddAlertCall ==
  /\ alerts' = add_alert(alerts,
                 [condition_id |-> 0, condition_desc |-> description(NoCond),
                  user_email |-> "u1", fired_at |-> now, email_sent |-> FALSE,
                  error |-> ""])
  /\ ret' = [op |-> "add_alert"]
  /\ UNCHANGED <<rolls, last_index, conditions, scraper_status, disk, now, nextId,
                 tickVars, accepted, pureVars, lockVars, fails>>

\* state.set_scraper_status(status)
SetScraperStatus(status) ==
  /\ scraper_status' = [status |-> status, error |-> ""]
  /\ ret' = [op |-> "set_scraper_status"]
  /\ UNCHANGED <<rolls, last_index, conditions, alerts, disk, now, nextId,
                 tickVars, accepted, pureVars, lockVars, fails>>

\* the process starts again: SharedState.__init__ with its _load
Restart ==
  /\ rolls' = <<>>
  /\ last_index' = 0
  /\ accepted' = <<>>
  /\ alerts' = <<>>
  /\ scraper_status' = [status |-> "stopped", error |-> ""]
  /\ conditions' = load(disk)
  /\ ret' = [op |-> "load"]
  /\ UNCHANGED <<disk, now, nextId, tickVars, pureVars, lockVars, fails>>

NextPersist ==
  \/ \E t \in PersistTemplates, u \in Users, ok \in BOOLEAN : RegAdd(t, u, ok)
  \/ \E id \in 1..MaxIds, u \in Users, ok \in BOOLEAN : RegRemove(id, u, ok)
  \/ \E id \in 1..MaxIds, ok \in BOOLEAN : RegFired(id, ok)
  \/ AddNextRoll
  \/ AddAlertCall
  \/ SetScraperStatus("running")
  \/ Restart

SpecPersist == Init /\ [][NextPersist]_vars

(* ---------------------------- Startup ---------------------------------- *)

\* The registry calls with a storage that may refuse a write, a state.json
\* that gets lost or damaged while the process is down or running, and
\* restarts.  A disk of <<>> is a state.json that is missing or holds no
\* condition: _load leaves self.conditions = [] for both.

\* state.json is deleted
FileLost ==
  /\ disk # <<>>
  /\ disk' = <<>>
  /\ ret' = [op |-> "file_lost"]
  /\ UNCHANGED <<rolls, last_index, conditions, alerts, scraper_status, now,
                 nextId, tickVars, accepted, pureVars, lockVars, fails>>

\* state.json is damaged (a torn write, an edit) behind its intact entries
FileDamaged ==
  /\ \A i \in 1..Len(disk) : disk[i] # Garbage
  /\ disk' = Append(disk, Garbage)
  /\ ret' = [op |-> "file_damaged"]
  /\ UNCHANGED <<rolls, last_index, conditions, alerts, scraper_status, now,
                 nextId, tickVars, accepted, pureVars, lockVars, fails>>

NextStartup ==
  \/ \E t \in PersistTemplates, u \in Users, ok \in BOOLEAN : RegAdd(t, u, ok)
  \/ \E id \in 1..MaxIds, u \in Users, ok \in BOOLEAN : RegRemove(id, u, ok)
  \/ \E id \in 1..MaxIds, ok \in BOOLEAN : RegFired(id, ok)
  \/ FileLost
  \/ FileDamaged
  \/ Restart

SpecStartup == Init /\ [][NextStartup]_vars

(* ---------------------------- Poll ticks ------------------------------- *)

\* The scraper thread with the answer of each poll on record: ret holds the
\* batch and the index the page reported and the last_index the tick found.

PollTick(raw, server_index) ==
  /\ PollOnceBody(raw, server_index)
  /\ ret' = [op |-> "poll_once", rolls |-> raw, index |-> server_index,
             last_index |-> last_index]

NextPoll ==
  \/ StartSession
  \/ ConnectOk
  \/ \E raw \in PollBatches, si \in 0..PollMaxIndex : PollTick(raw, si)
  \/ \E d \in {"", "d1"}, cfg \in BOOLEAN, o \in TransportOutcomes :
       CheckCondition(d, cfg, o)
  \/ \E ok \in StorageUp : MarkFired(ok)
  \/ AddAlert
  \/ FinishEval
  \/ HandlePollError
  \/ \E t \in PersistTemplates, u \in Users, ok \in StorageUp : AddCondition(t, u, ok)

SpecPoll == Init /\ [][NextPoll]_vars

(* ---------------------------- Alert log -------------------------------- *)

\* add_alert called for registered conditions at any time, next to the
\* handlers that add and delete conditions.

\* state.add_alert(Alert(condition_id=..., condition_desc=condition.description,
\* ...)) for the k-th registered condition
AlertOf(c, sent) ==
  [condition_id |-> c.id, condition_desc |-> description(c),
   user_email |-> c.user_email, fired_at |-> now, email_sent |-> sent,
   error |-> IF sent THEN "" ELSE "Failed to send DM"]

AddAlertOf(k, sent) ==
  /\ k \in 1..Len(conditions)
  /\ alerts' = add_alert(alerts, AlertOf(conditions[k], sent))
  /\ ret' = [op |-> "add_alert"]
  /\ UNCHANGED <<rolls, last_index, conditions, scraper_status, disk, now, nextId,
                 tickVars, accepted, pureVars, lockVars, fails>>

NextAlerts ==
  \/ \E k \in 1..MaxIds, sent \in BOOLEAN : AddAlertOf(k, sent)
  \/ \E t \in PersistTemplates, u \in Users, ok \in StorageUp : RegAdd(t, u, ok)
  \/ \E id \in 1..MaxIds, u \in Users, ok \in StorageUp : RegRemove(id, u, ok)
  \/ RegAdvance

SpecAlerts == Init /\ [][NextAlerts]_vars

(* ---------------------------- Pure functions --------------------------- *)

\* a window as the store hands it out: indices increasing, any coins
WindowOf(coins) == [i \in 1..Len(coins) |-> [index |-> i, coin |-> coins[i]]]

Windows == {WindowOf(cs) : cs \in SeqsUpTo(Coins, MaxWin)}

\* conditions as the forms of app.py build them (param_n at least 1), enabled
\* or not
EvalConds ==
  {[id |-> 1, color |-> c, type |-> ty, param_n |-> n, param_threshold |-> th,
    cooldown_minutes |-> 1, last_fired_at |-> Unset, enabled |-> en,
    user_email |-> "u1"] :
      c \in Coins, ty \in CondTypes, n \in 1..MaxN, th \in 0..MaxN, en \in BOOLEAN}

NoOut == [done |-> FALSE, value |-> FALSE]

InitEval ==
  /\ rolls = <<>>
  /\ last_index = 0
  /\ conditions = <<>>
  /\ alerts = <<>>
  /\ scraper_status = [status |-> "stopped", error |-> ""]
  /\ disk = <<>>
  /\ now = 1
  /\ nextId = 0
  /\ pc = "init"
  /\ evalRolls = <<>>
  /\ evalQueue = <<>>
  /\ cur = NoCond
  /\ pend = NoPend
  /\ chk = NoChk
  /\ accepted = <<>>
  /\ ret = NoRet
  /\ evCond \in EvalConds
  /\ evWindow \in Windows
  /\ evNow = 0
  /\ evOut = NoOut
  /\ lock = "free"
  /\ thr = [t \in Threads |-> NoCall]
  /\ serial = NoSerial
  /\ fails = 0

\* cond_engine.evaluate(condition, rolls)
Evaluate ==
  /\ ~evOut.done
  /\ evOut' = [done |-> TRUE, value |-> evaluate(evCond, evWindow)]
  /\ UNCHANGED <<rolls, last_index, conditions, alerts, scraper_status, disk, now,
                 nextId, tickVars, accepted, ret, evCond, evWindow, evNow, lockVars, fails>>

NextEval == Evaluate

SpecEval == InitEval /\ [][NextEval]_vars

\* conditions as they reach is_in_cooldown: never fired, fired at some minute
\* (the isoformat string update_condition_fired wrote), or carrying a string
\* that is no timestamp (state.json is read back with Condition(**c), which
\* checks nothing)
CooldownConds ==
  {[id |-> 1, color |-> "ct", type |-> "count_below", param_n |-> 1,
    param_threshold |-> 1, cooldown_minutes |-> cd, last_fired_at |-> l,
    enabled |-> TRUE, user_email |-> "u1"] :
      cd \in 1..MaxCooldown, l \in {Unset, Malformed} \cup (1..MaxNow)}

InitCooldown ==
  /\ rolls = <<>>
  /\ last_index = 0
  /\ conditions = <<>>
  /\ alerts = <<>>
  /\ scraper_status = [status |-> "stopped", error |-> ""]
  /\ disk = <<>>
  /\ now = 1
  /\ nextId = 0
  /\ pc = "init"
  /\ evalRolls = <<>>
  /\ evalQueue = <<>>
  /\ cur = NoCond
  /\ pend = NoPend
  /\ chk = NoChk
  /\ accepted = <<>>
  /\ ret = NoRet
  /\ evCond \in CooldownConds
  /\ evWindow = <<>>
  /\ evNow \in 1..MaxNow
  /\ evOut = NoOut
  /\ lock = "free"
  /\ thr = [t \in Threads |-> NoCall]
  /\ serial = NoSerial
  /\ fails = 0

\* cond_engine.is_in_cooldown(condition) while datetime.now() is evNow
IsInCooldown ==
  /\ ret.op = "none"
  /\ ret' = [op |-> "is_in_cooldown", out |-> is_in_cooldown(evCond, evNow)]
  /\ UNCHANGED <<rolls, last_index, conditions, alerts, scraper_status, disk, now,
                 nextId, tickVars, accepted, pureVars, lockVars, fails>>

NextCooldown == IsInCooldown

SpecCooldown == InitCooldown /\ [][NextCooldown]_vars

(* ======================================================================= *)
(* Properties                                                              *)
(* ======================================================================= *)

\* the last min(n, Len(s)) entries of s, in order
LastMin(s, n) ==
  LET k == Min(n, Len(s)) IN [i \in 1..k |-> s[Len(s) - k + i]]

StrictlyIncreasing(rs) ==
  \A i, j \in 1..Len(rs) : i < j => rs[i].index < rs[j].index

(* ---- C1 ---- *)
\* C1: after any sequence of add_rolls calls, whatever the batches (any
\* order, duplicates, stale indices), the stored rolls have strictly
\* increasing indices, hence no index twice.
C1_RollsStrictlyIncreasing == StrictlyIncreasing(rolls)

\* an add_rolls call on a non-empty store got a batch with a repeated or
\* descending index, accepted part of it, and the store holds several rolls
C1_Witness ==
  /\ ret.op = "add_rolls"
  /\ ret.disordered
  /\ ret.out # <<>>
  /\ ret.pre # <<>>
  /\ Len(rolls) >= 2

(* ---- C6 ---- *)
\* C6: an add_rolls call whose candidates all have an index at or below the
\* high-water mark returns the empty list and leaves rolls and last_index
\* as they were.
C6_RedeliveryIsNoOp ==
  (ret.op = "add_rolls" /\ ret.stale)
    => /\ ret.out = <<>>
       /\ rolls = ret.pre
       /\ last_index = ret.preLast

\* a roll that is in the store was submitted again, as the stored high-water
\* roll itself
C6_Witness ==
  /\ ret.op = "add_rolls"
  /\ ret.stale
  /\ ret.again
  /\ ret.preLast > 0

(* ---- C7 ---- *)
\* C7: after every add_rolls call the store holds at most RollCap rolls (200
\* in the source) and they are exactly the last min(RollCap, number accepted)
\* accepted rolls, in acceptance order.
C7_MostRecentKept ==
  /\ Len(rolls) <= RollCap
  /\ rolls = LastMin(accepted, RollCap)

\* more rolls were accepted than the cap: the oldest is gone
C7_Witness ==
  /\ ret.op = "add_rolls"
  /\ Len(accepted) > RollCap
  /\ Len(rolls) = RollCap
  /\ rolls[1] # accepted[1]

(* ---- C19 ---- *)
\* the largest index among the rolls of s, 0 for none
MaxIndexOf(s) ==
  IF s = <<>> THEN 0
  ELSE CHOOSE m \in {s[i].index : i \in 1..Len(s)} :
         \A i \in 1..Len(s) : s[i].index <= m

C19_Inv ==
  (ret.op = "add_rolls" /\ ret.out # <<>>)
    => /\ last_index = MaxIndexOf(ret.out)
       /\ last_index = MaxIndexOf(accepted)
       /\ rolls # <<>>
       /\ last_index = rolls[Len(rolls)].index

C19_Act == last_index' >= last_index

\* C19: last_index never decreases, and after an add_rolls call that
\* accepted a roll it is the largest index accepted (in this call and ever),
\* which is the index of the last stored roll.
C19_HighWaterMark == []C19_Inv /\ [][C19_Act]_vars

\* an add_rolls call on a store that already had rolls accepted two rolls;
\* last_index went up to the index of the second
C19_Witness ==
  /\ ret.op = "add_rolls"
  /\ Len(ret.out) >= 2
  /\ ret.preLast > 0
  /\ last_index = ret.out[Len(ret.out)].index
  /\ last_index > ret.out[1].index

(* ---- C8 ---- *)
\* C8 (as claimed): for every n >= 0, get_rolls(n) returns the last
\* min(n, Len(rolls)) rolls in order and leaves the store alone.
C8_QueryLastN ==
  ret.op = "get_rolls"
    => /\ ret.out = LastMin(ret.pre, ret.n)
       /\ rolls = ret.pre
       /\ last_index = ret.preLast

(* ---- C10 ---- *)
\* number of entries of the last min(n, Len(w)) entries of w with this coin
MatchesInLast(w, n, color) ==
  LET k == Min(n, Len(w)) IN
  Cardinality({i \in (Len(w) - k + 1)..Len(w) : w[i].coin = color})

\* C10: for an enabled count_below condition (param_n >= 1) and a non-empty
\* window, evaluate is true iff fewer than param_threshold of the last
\* min(param_n, Len(window)) rolls have the condition's colour.
C10_CountBelow ==
  (evOut.done /\ evCond.type = "count_below" /\ evCond.enabled /\ evWindow # <<>>)
    => (evOut.value <=>
          MatchesInLast(evWindow, evCond.param_n, evCond.color) < evCond.param_threshold)

\* the window is longer than param_n, an old roll of the colour lies outside
\* it, the count inside is one below the threshold: evaluate is true
C10_Witness ==
  /\ evOut.done
  /\ evOut.value
  /\ evCond.type = "count_below"
  /\ evCond.enabled
  /\ Len(evWindow) > evCond.param_n
  /\ evWindow[1].coin = evCond.color
  /\ MatchesInLast(evWindow, evCond.param_n, evCond.color) + 1 = evCond.param_threshold
  /\ evCond.param_threshold >= 2

(* ---- C11 ---- *)
\* C11: for an enabled absent_streak condition (param_n >= 1), evaluate is
\* true iff the window has at least param_n rolls and none of its last
\* param_n rolls has the condition's colour; on a shorter window it is false.
C11_AbsentStreak ==
  (evOut.done /\ evCond.type = "absent_streak" /\ evCond.enabled)
    => /\ evOut.value <=>
            /\ Len(evWindow) >= evCond.param_n
            /\ \A i \in (Len(evWindow) - evCond.param_n + 1)..Len(evWindow) :
                 evWindow[i].coin # evCond.color
       /\ Len(evWindow) < evCond.param_n => ~evOut.value

\* the window is longer than param_n, the colour shows up before the last
\* param_n rolls and not among them: evaluate is true
C11_Witness ==
  /\ evOut.done
  /\ evOut.value
  /\ evCond.type = "absent_streak"
  /\ evCond.enabled
  /\ evCond.param_n >= 2
  /\ Len(evWindow) > evCond.param_n
  /\ evWindow[1].coin = evCond.color

(* ---- C12 ---- *)
\* C12: for an enabled consecutive condition (param_n >= 1), evaluate is true
\* iff the window has at least param_n rolls and its last param_n rolls all
\* have the condition's colour, whatever the rolls before them are.
C12_Consecutive ==
  (evOut.done /\ evCond.type = "consecutive" /\ evCond.enabled)
    => (evOut.value <=>
          /\ Len(evWindow) >= evCond.param_n
          /\ \A i \in (Len(evWindow) - evCond.param_n + 1)..Len(evWindow) :
               evWindow[i].coin = evCond.color)

\* the window is longer than param_n, its last param_n rolls have the colour
\* and the roll before them does not: evaluate is true
C12_Witness ==
  /\ evOut.done
  /\ evOut.value
  /\ evCond.type = "consecutive"
  /\ evCond.enabled
  /\ evCond.param_n >= 2
  /\ Len(evWindow) > evCond.param_n
  /\ evWindow[Len(evWindow) - evCond.param_n].coin # evCond.color

(* ---- C13 ---- *)
\* C13: is_in_cooldown at clock reading evNow is true iff last_fired_at is a
\* timestamp (neither empty nor unparsable) and evNow - last_fired_at is
\* strictly less than cooldown_minutes; an empty or unparsable last_fired_at
\* gives false.
C13_Cooldown ==
  ret.op = "is_in_cooldown"
    => /\ ret.out <=>
            /\ evCond.last_fired_at \notin {Unset, Malformed}
            /\ evNow - evCond.last_fired_at < evCond.cooldown_minutes
       /\ evCond.last_fired_at \in {Unset, Malformed} => ~ret.out

\* the condition fired one minute less than its cooldown ago: in cooldown
C13_Witness ==
  /\ ret.op = "is_in_cooldown"
  /\ ret.out
  /\ evCond.last_fired_at \notin {Unset, Malformed}
  /\ evCond.cooldown_minutes >= 2
  /\ evNow - evCond.last_fired_at = evCond.cooldown_minutes - 1

(* ---- C15 ---- *)
\* C15: whenever no thread is inside a with block of the registry, the
\* condition list is what the calls made so far give when they are applied
\* one after the other in the order they took the lock; every condition that
\* was added and whose owner did not ask for its removal is in the list, and
\* every condition that was marked fired and is still in the list has a
\* last_fired_at.
C15_NoLostUpdate ==
  lock = "free"
    => /\ conditions = serial.conds
       /\ \A a \in serial.added \ serial.removed :
            \E k \in 1..Len(conditions) :
              conditions[k].id = a[1] /\ conditions[k].user_email = a[2]
       /\ \A id \in serial.fired :
            \A k \in 1..Len(conditions) :
              conditions[k].id = id => conditions[k].last_fired_at # Unset

\* all calls have returned, some of them had to wait for the lock; one
\* condition was added, marked fired and is there with its last_fired_at,
\* another was added and removed by its owner and is gone
C15_Witness ==
  /\ \A t \in Threads : thr[t].pc = "out"
  /\ lock = "free"
  /\ serial.contended
  /\ \E k \in 1..Len(conditions) :
       /\ conditions[k].id \in serial.fired
       /\ conditions[k].last_fired_at # Unset
  /\ \E a \in serial.added \cap serial.removed :
       \A k \in 1..Len(conditions) : conditions[k].id # a[1]

(* ---- C16 ---- *)
RegistryOps == {"add_condition", "remove_condition", "update_condition_fired"}

C16_Inv ==
  (ret.op \in RegistryOps /\ ret.saved)
    => /\ load(disk) = conditions
       /\ disk = conditions

C16_Act == disk' # disk => ret'.op \in RegistryOps

\* C16: when add_condition, remove_condition or update_condition_fired has
\* returned and its write went through, state.json holds the condition list
\* field for field (last_fired_at included) and loading it gives the list
\* back; state.json changes in no other call (add_alert, add_rolls,
\* set_scraper_status).
C16_Persisted == []C16_Inv /\ [][C16_Act]_vars

\* update_condition_fired has returned after a write that went through: the
\* fired condition is in state.json with its last_fired_at, and rolls, alerts
\* and status have been changed meanwhile
C16_Witness ==
  /\ ret.op = "update_condition_fired"
  /\ ret.saved
  /\ \E k \in 1..Len(conditions) :
       /\ conditions[k].id = ret.id
       /\ conditions[k].last_fired_at # Unset
       /\ ret.pre[k].last_fired_at = Unset
       /\ disk[k].last_fired_at = conditions[k].last_fired_at
  /\ rolls # <<>>
  /\ alerts # <<>>
  /\ scraper_status.status = "running"

(* ---- C22 ---- *)
\* what the call recorded in ret makes of the list it found
Mutated ==
  IF ret.op = "add_condition"
    THEN /\ Len(conditions) = Len(ret.pre) + 1
         /\ SubSeq(conditions, 1, Len(ret.pre)) = ret.pre
         /\ conditions[Len(conditions)].id = ret.id
         /\ conditions[Len(conditions)].user_email = ret.user
  ELSE IF ret.op = "remove_condition"
    THEN LET Keep(c) == ~(c.id = ret.id /\ c.user_email = ret.user) IN
         conditions = SelectSeq(ret.pre, Keep)
  ELSE /\ Len(conditions) = Len(ret.pre)
       /\ \A k \in 1..Len(conditions) :
            IF ret.pre[k].id = ret.id
              THEN conditions[k] = [ret.pre[k] EXCEPT !.last_fired_at = now]
              ELSE conditions[k] = ret.pre[k]

\* C22: a registry call whose write failed has returned with the list
\* changed as the call says; a process that starts on a state.json that is
\* missing or has an entry it cannot build has an empty condition list.
C22_StorageFailureTolerated ==
  /\ (ret.op \in RegistryOps /\ ~ret.saved) => Mutated
  /\ (ret.op = "load" /\ disk = <<>>) => conditions = <<>>
  /\ (ret.op = "load" /\ \E i \in 1..Len(disk) : disk[i] = Garbage)
       => conditions = <<>>

\* the process has started on a damaged state.json that still holds a
\* condition: the list is empty
C22_Witness ==
  /\ ret.op = "load"
  /\ Len(disk) >= 2
  /\ disk[1].id >= 1
  /\ disk[Len(disk)] = Garbage
  /\ conditions = <<>>

(* ---- C24 ---- *)
C24_Inv == Len(alerts) <= AlertCap

C24_Act ==
  LET n == Len(alerts') IN
  /\ \A k \in 1..MaxIds, sent \in BOOLEAN :
       AddAlertOf(k, sent)
         => /\ n = Min(Len(alerts) + 1, AlertCap)
            /\ alerts'[n] = AlertOf(conditions[k], sent)
            /\ \A i \in 1..(n - 1) : alerts'[i] = alerts[Len(alerts) - (n - 1) + i]
  /\ alerts' # alerts => ret'.op = "add_alert"

Ids == 1..MaxIds

HasCond(conds, id) == \E k \in 1..Len(conds) : conds[k].id = id

CondOf(conds, id) == conds[CHOOSE k \in 1..Len(conds) : conds[k].id = id]

LastAlert == alerts[Len(alerts)]

\* this step changes the last_fired_at of the condition with this id
LastFiredChanged(id) ==
  /\ HasCond(conditions, id)
  /\ HasCond(conditions', id)
  /\ CondOf(conditions', id).last_fired_at # CondOf(conditions, id).last_fired_at

\* the tick has just appended the alert of the condition chk describes
AlertJustAdded == pc = "eval" /\ chk.id # 0

\* what the visit saw says the condition was in its cooldown
SeenInCooldown == chk.last # Unset /\ chk.at - chk.last < chk.cd

(* ---- C2 ---- *)
C2_Inv ==
  pc \in {"mark", "alert"}
    => /\ chk.id = cur.id
       /\ chk.enabled
       /\ ~SeenInCooldown
       /\ chk.eval
       /\ evalRolls = LastMin(rolls, EvalWindow)

C2_Act ==
  /\ \A id \in Ids : LastFiredChanged(id) => (pc = "mark" /\ cur.id = id)
  /\ alerts' # alerts
       => (pc = "alert" /\ alerts' # <<>> /\ alerts'[Len(alerts')].condition_id = cur.id)

\* C2: a condition is marked fired and gets an alert only in a tick whose
\* visit of it found it enabled, out of cooldown and evaluate true on the
\* last EvalWindow rolls (100 in the source).
C2_FiresOnlyWhenGated == []C2_Inv /\ [][C2_Act]_vars

\* a delivered alert has just been appended for a condition that passed the
\* three gates
C2_Witness ==
  /\ AlertJustAdded
  /\ chk.enabled /\ chk.eval /\ ~SeenInCooldown
  /\ alerts # <<>>
  /\ LastAlert.condition_id = chk.id
  /\ LastAlert.email_sent

(* ---- C3 ---- *)
C3_Act ==
  \A id \in Ids :
    LastFiredChanged(id)
      => LET old == CondOf(conditions, id)
             new == CondOf(conditions', id)
         IN /\ new.last_fired_at = now
            /\ old.last_fired_at # Unset
                 => new.last_fired_at - old.last_fired_at >= old.cooldown_minutes

\* C3: whenever a condition that fired before is marked fired again, at least
\* cooldown_minutes have passed since its previous last_fired_at.
C3_CooldownSpacing == [][C3_Act]_vars

\* a condition has been marked fired a second time, exactly cooldown_minutes
\* after the first: once the cooldown has passed it is eligible
C3_Witness ==
  /\ pc = "alert"
  /\ chk.last # Unset
  /\ HasCond(conditions, chk.id)
  /\ CondOf(conditions, chk.id).last_fired_at - chk.last = chk.cd

(* ---- C4 ---- *)
C4_Inv ==
  /\ (pc \in {"mark", "alert"} /\ ~chk.target)
       => (~pend.success /\ pend.error # "")
  /\ (AlertJustAdded /\ ~chk.target)
       => /\ alerts # <<>>
          /\ LastAlert.condition_id = chk.id
          /\ ~LastAlert.email_sent
          /\ LastAlert.error # ""
  /\ ((pc = "alert" \/ AlertJustAdded) /\ ~chk.target /\ HasCond(conditions, chk.id))
       => /\ CondOf(conditions, chk.id).last_fired_at # Unset
          /\ CondOf(conditions, chk.id).last_fired_at >= chk.at

C4_Act ==
  (pc = "eval" /\ pc' = "mark")
    => LET c == Head(evalQueue) IN
       \/ c.last_fired_at = Unset
       \/ now - c.last_fired_at >= c.cooldown_minutes

\* C4: a firing condition whose owner has no discord id is still marked fired
\* (when it is still registered) and gets an alert with email_sent false and
\* a non-empty error, and no condition is fired while less than its
\* cooldown_minutes have passed since its last_fired_at.
C4_NoTargetStillFires == []C4_Inv /\ [][C4_Act]_vars

\* the owner had no discord id: the alert is there, undelivered, with an
\* error, and the condition carries a last_fired_at
C4_Witness ==
  /\ AlertJustAdded
  /\ ~chk.target
  /\ alerts # <<>>
  /\ LastAlert.condition_id = chk.id
  /\ ~LastAlert.email_sent
  /\ LastAlert.error = "No Discord ID configured"
  /\ HasCond(conditions, chk.id)
  /\ CondOf(conditions, chk.id).last_fired_at # Unset

(* ---- C14 ---- *)
C14_Inv == pc = "poll_error" => scraper_status.status = "running"

C14_Act ==
  /\ pc = "poll_error"
       => (pc' \in {"poll_error", "idle"} /\ scraper_status' = scraper_status)
  /\ scraper_status.status = "running" => scraper_status'.status = "running"

\* C14: an exception raised in a poll tick (by the poll, the append, the
\* evaluation or the dispatch) ends in the loop's handler with the status
\* still "running"; the status never leaves "running", and from the handler
\* the loop goes back to polling.
C14_TickErrorCaught ==
  /\ []C14_Inv
  /\ [][C14_Act]_vars
  /\ (pc = "poll_error") ~> (pc = "idle")

\* the dispatch of a firing condition raised: the loop's handler has the
\* exception, the status is "running"
C14_Witness ==
  /\ pc = "poll_error"
  /\ chk.transport = "read_raised"
  /\ scraper_status.status = "running"

(* ---- C17 ---- *)
C17_Act ==
  \A raw \in PollBatches, si \in 0..PollMaxIndex :
    (rolls = <<>> /\ last_index = 0 /\ PollOnce(raw, si))
      => \A i \in 1..Len(raw) : \E k \in 1..Len(rolls') : rolls'[k] = raw[i]

\* C17 (as claimed): a poll tick that finds the store empty and last_index 0
\* leaves every roll of the page's batch in the store, in whatever order
\* their indices come.
C17_SeedStoresAll == [][C17_Act]_vars

(* ---- C18 ---- *)
\* the positions of the scraper thread inside _evaluate_conditions
EvalPcs == {"eval", "mark", "alert"}

C18_Act ==
  /\ PollNone => UNCHANGED <<rolls, last_index, conditions, alerts, scraper_status>>
  /\ (pc \notin EvalPcs /\ pc' \in EvalPcs)
       => /\ pc = "idle"
          /\ Len(accepted') > Len(accepted)
          /\ rolls' # <<>>
          /\ rolls'[Len(rolls')] = accepted'[Len(accepted')]
  /\ alerts' # alerts => pc \in EvalPcs

\* C18: a tick whose poll gives None leaves rolls, last_index, conditions,
\* alerts and the status as they were; _evaluate_conditions is entered only
\* by a tick whose add_rolls accepted a roll, and alerts are appended only
\* inside it.
C18_TickFrame == [][C18_Act]_vars

\* a condition fires in a tick whose add_rolls accepted the roll that is now
\* the newest of the evaluated window
C18_Witness ==
  /\ pc = "mark"
  /\ accepted # <<>>
  /\ evalRolls # <<>>
  /\ evalRolls[Len(evalRolls)] = accepted[Len(accepted)]

(* ---- C20 ---- *)
StatusEdges ==
  { <<"stopped", "starting">>, <<"starting", "running">>, <<"starting", "error">>,
    <<"running", "error">>, <<"error", "starting">> }

C20_Act ==
  scraper_status'.status # scraper_status.status
    => <<scraper_status.status, scraper_status'.status>> \in StatusEdges

\* C20: the status moves only from stopped to starting, from starting to
\* running or error, from running to error and from error to starting; so it
\* never comes back to stopped and never goes from error straight to running.
C20_StatusEdges == [][C20_Act]_vars

\* a session failed to connect and the next one, started after the backoff,
\* does not begin before the status says error with the exception's text
C20_Witness ==
  /\ scraper_status.status = "error"
  /\ scraper_status.error # ""
  /\ pc = "backoff"

(* ---- C21 ---- *)
C21_Inv ==
  scraper_status.status = "error" => (pc = "backoff" /\ ENABLED StartSession)

C21_Act ==
  /\ (pc = "connecting" /\ pc' # pc)
       => \/ pc' = "backoff" /\ scraper_status'.status = "error"
          \/ pc' = "idle" /\ scraper_status'.status = "running"
  /\ (pc = "backoff" /\ pc' # pc)
       => (pc' = "connecting" /\ scraper_status'.status = "starting")

\* C21: a failed connection always ends in status "error" at the backoff,
\* from where, however many sessions failed before, the next session is
\* started ("starting"); a connection that succeeds gives "running".  With a
\* scraper thread that keeps running, "error" is always followed by
\* "starting" and "starting" by "running" or "error".
C21_RetryUnbounded ==
  /\ []C21_Inv
  /\ [][C21_Act]_vars
  /\ (scraper_status.status = "error") ~> (scraper_status.status = "starting")
  /\ (scraper_status.status = "starting")
       ~> (scraper_status.status \in {"running", "error"})

\* MaxFails sessions failed one after the other and a further one has been
\* started
C21_Witness ==
  /\ fails = MaxFails
  /\ pc = "connecting"
  /\ scraper_status.status = "starting"

(* ---- C23 ---- *)
C23_Act ==
  \A id \in Ids :
    (HasCond(conditions, id) /\ HasCond(conditions', id))
      => LET old == CondOf(conditions, id)
             new == CondOf(conditions', id)
         IN /\ old.last_fired_at # Unset
                 => /\ new.last_fired_at # Unset
                    /\ new.last_fired_at >= old.last_fired_at
            /\ new.last_fired_at # old.last_fired_at
                 => (pc = "mark" /\ pc' = "alert" /\ cur.id = id)

\* C23: in every step of a tick or of a handler, a condition that stays
\* registered keeps a last_fired_at it has: the value is not emptied and does
\* not go back; it changes only in the step that marks the condition fired.
C23_LastFiredMonotone == [][C23_Act]_vars

\* a condition was fired, a second condition was registered, and the first
\* has been fired again with a later last_fired_at
C23_Witness ==
  /\ pc = "alert"
  /\ chk.last # Unset
  /\ Len(conditions) >= 2
  /\ HasCond(conditions, chk.id)
  /\ CondOf(conditions, chk.id).last_fired_at > chk.last

(* ---- C25 ---- *)
\* a condition that is not registered was deleted: ids are handed out once
\* and leave the registry only in remove_condition
C25_Act ==
  /\ (pc = "eval" /\ pc' = "mark" /\ pend'.success)
       => HasCond(conditions, cur'.id)
  /\ (pc = "alert" /\ pc' # "alert") => HasCond(conditions, cur.id)

\* C25: after remove_condition has returned for a condition, the tick sends
\* no notification for it and appends no alert with its id, wherever in the
\* tick the removal falls.
C25_NoAlertAfterRemoval == [][C25_Act]_vars

(* ---- C26 ---- *)
\* the rolls of a batch whose index is above li, in the batch's order
Above(raw, li) ==
  LET IsAbove(r) == r.index > li IN SelectSeq(raw, IsAbove)

\* a step that leaves ret as it was is not a tick, or is a tick that repeats
\* the previous one and changes nothing
C26_Act ==
  ret' # ret
    => LET above == Above(ret'.rolls, last_index) IN
       /\ pc = "idle"
       /\ ret'.op = "poll_once"
       /\ ret'.last_index = last_index
       /\ IF ret'.index <= last_index /\ last_index > 0
            THEN UNCHANGED <<rolls, last_index, accepted, conditions, alerts, pc>>
            ELSE above # <<>>
                   => LET r == add_rolls(above, rolls, last_index) IN
                      /\ rolls' = r.rolls
                      /\ last_index' = r.last_index
                      /\ accepted' = accepted \o r.added

\* C26: a tick in which the page reports an index that is not above a
\* non-zero last_index leaves rolls, last_index, conditions and alerts as
\* they were, whatever the batch holds; in every other tick the rolls of
\* the batch with an index above last_index are handed to add_rolls, all of
\* them and in the batch's order.
C26_TickGate == [][C26_Act]_vars

\* a tick found a reported index that was not new and a batch with a roll
\* above last_index, and last_index is still below that roll
C26_Witness ==
  /\ ret.op = "poll_once"
  /\ ret.last_index > 0
  /\ ret.index <= ret.last_index
  /\ Above(ret.rolls, ret.last_index) # <<>>
  /\ last_index = ret.last_index
  /\ rolls # <<>>
  /\ \A k \in 1..Len(rolls) : rolls[k].index <= ret.last_index
  /\ pc = "idle"

(* ---- C5 ---- *)
TransportFailures == {"open_failed", "send_failed", "read_raised"}

\* C5 (as claimed): whichever way the transport fails, the tick does not end
\* in the loop's exception handler: the dispatch yields (False, error), the
\* condition is marked and its alert, undelivered and with the error, is
\* appended before the loop goes on.
C5_TransportFailureContained ==
  chk.transport \in TransportFailures
    => /\ pc # "poll_error"
       /\ pc \in {"mark", "alert"} => (~pend.success /\ pend.error # "")
       /\ AlertJustAdded
            => /\ alerts # <<>>
               /\ LastAlert.condition_id = chk.id
               /\ ~LastAlert.email_sent
               /\ LastAlert.error = pend.error

(* ---- C9 ---- *)
\* C9: remove_condition(id, user) removes exactly the conditions that have
\* both this id and this owner; with another owner, an unknown id or an id
\* already removed it leaves the list as it was.
C9_RemoveScoped ==
  ret.op = "remove_condition"
    => LET Keep(c) == ~(c.id = ret.id /\ c.user_email = ret.user) IN
       /\ conditions = SelectSeq(ret.pre, Keep)
       /\ (\A k \in 1..Len(ret.pre) :
             ret.pre[k].id = ret.id => ret.pre[k].user_email # ret.user)
            => conditions = ret.pre

\* remove_condition was called with the id of a registered condition by
\* somebody who is not its owner, and the condition is still there
C9_Witness ==
  /\ ret.op = "remove_condition"
  /\ \E k \in 1..Len(ret.pre) :
       /\ ret.pre[k].id = ret.id
       /\ ret.pre[k].user_email # ret.user
  /\ HasCond(conditions, ret.id)
  /\ conditions = ret.pre

====
